---------------------------- MODULE Spec2Model ----------------------------
(***************************************************************************)
(* Multi-camera texture capture pipeline (crates gpu_copy, bevy_headless   *)
(* and their consumers).                                                   *)
(*                                                                         *)
(* Part 1  Layout Calculator: next_power_of_2 and calculate_grid_dimensions*)
(*         (gpu_copy/src/utils.rs, bevy_headless/src/utils.rs).            *)
(* Part 2  Capture pipeline: setup_render_target, prepare_asset, the       *)
(*         capture node, save_buffer_as_resource and the registry readers. *)
(* Part 3  Vision sensors of episode-5 on bevy_headless: add_vision and    *)
(*         VisionView::get_view.                                           *)
(***************************************************************************)
EXTENDS Integers, Sequences, FiniteSets, TLC

VARIABLES
  cgd,             \* call frame of the layout functions (pc, arguments, locals)
  exported_images, \* ExportedImages: name -> [frame_id, img_buffer]
  export_bundles,  \* the ImageExportBundle entities with their ImageSource, in spawn order
  frame_id,        \* Local<u64> of save_buffer_as_resource
  lock,            \* holder of the registry mutex
  coord,           \* render thread: position in the frame and locals of save_buffer_as_resource
  seen,            \* what save_img read last
  nruns,           \* frames started in this behaviour
  wrapped,         \* history: the frame counter has wrapped around
  publish_log,     \* history: per name, the frame ids of the update_data calls
  headless_images, \* bevy_headless ExportedImages: the Vec of atlas images
  visions,         \* episode-5: the Sensor::Vision entities
  view             \* episode-5: the last call of VisionView::get_view

layoutVars == <<cgd>>
pipeVars == <<exported_images, export_bundles, frame_id, lock, coord, seen,
              nruns, wrapped, publish_log>>
visionVars == <<headless_images, visions, view>>
vars == <<cgd, exported_images, export_bundles, frame_id, lock, coord, seen,
          nruns, wrapped, publish_log, headless_images, visions, view>>

----------------------------------------------------------------------------
(* Bounds of the model *)

MaxViews == 10          \* num_views ranges over 1..MaxViews
MaxViewDim == 5         \* view_width, view_height range over 1..MaxViewDim and the spec's scenarios
MaxPow2Arg == 34        \* next_power_of_2 is applied to 0..MaxPow2Arg

(* Every product and sum of Part 1 stays below 2^31 for these inputs, so   *)
(* the u32/usize arithmetic of the source is plain integer arithmetic here;*)
(* the only operation that can leave the range is a subtraction from 0,    *)
(* which is recorded in the call frame's underflow field.                  *)

ScenarioDims == {50, 200}
ViewDims == (1..MaxViewDim) \cup ScenarioDims
Crates == {"gpu_copy", "bevy_headless"}

----------------------------------------------------------------------------
(* Part 1: Layout Calculator *)

(* usize::next_power_of_two: the smallest power of two >= x; 1 for x = 0. *)
RECURSIVE pow2_at_least(_, _)
pow2_at_least(x, p) == IF p >= x THEN p ELSE pow2_at_least(x, 2 * p)

std_next_power_of_two(x) == pow2_at_least(x, 1)

(* usize::trailing_zeros of a non-zero value. *)
RECURSIVE trailing_zeros(_)
trailing_zeros(p) == IF p % 2 = 1 THEN 0 ELSE 1 + trailing_zeros(p \div 2)

(* fn next_power_of_2(n): 1 for 0, else 2^tz((n - 1).next_power_of_two()). *)
next_power_of_2(n) ==
  IF n = 0
  THEN 1
  ELSE 2 ^ trailing_zeros(std_next_power_of_two(n - 1))

(* a & b on naturals *)
RECURSIVE BitAnd(_, _)
BitAnd(a, b) ==
  IF a = 0 \/ b = 0
  THEN 0
  ELSE (a % 2) * (b % 2) + 2 * BitAnd(a \div 2, b \div 2)

(* (n as f64).sqrt().ceil() as u32: exact for every u32.                   *)
(* ceil_sqrt_floor: floor() written for ceil().                            *)
ceil_sqrt_floor(n) == CHOOSE c \in 0..n : c * c <= n /\ (c + 1) * (c + 1) > n

ceil_sqrt(n) == CHOOSE c \in 0..n : c * c >= n /\ (c = 0 \/ (c - 1) * (c - 1) < n)

(* (a as f64 / b as f64).ceil() as u32, b > 0 *)
ceil_div(a, b) == (a + b - 1) \div b

(* lines 94-95: the grid before the row reduction.                         *)
(* naive_rows_zero: the quotient truncated to 0 instead of rounded up.     *)
naive_rows_zero(num_views, cols) == 0

naive_rows(num_views, cols) == ceil_div(num_views, cols)

(* lines 102-127 (gpu_copy) and 119-123 (bevy_headless): one atlas dimension *)
texture_dim(crate, initial) ==
  IF crate = "gpu_copy"
  THEN IF initial = 0 \/ BitAnd(initial, initial - 1) = 0
       THEN initial
       ELSE next_power_of_2(initial)
  ELSE next_power_of_2(initial)

(* lines 129-137: the viewport offsets, pushed for i in 0..num_views.      *)
(* position_skewed: the row taken with a divisor off by one;               *)
(* position_transposed: row and column exchanged.                          *)
position_skewed(i, cols, view_width, view_height) ==
  <<(i % cols) * view_width, (i \div (cols + 1)) * view_height>>

position_transposed(i, cols, view_width, view_height) ==
  <<(i \div cols) * view_width, (i % cols) * view_height>>

position(i, cols, view_width, view_height) ==
  <<(i % cols) * view_width, (i \div cols) * view_height>>

(* lines 97-100 as a function of the grid *)
RECURSIVE reduce_rows(_, _, _)
reduce_rows(cols, rows, num_views) ==
  IF rows > 0 /\ cols * (rows - 1) >= num_views
  THEN reduce_rows(cols, rows - 1, num_views)
  ELSE rows

RECURSIVE positions_from(_, _, _, _, _)
positions_from(i, num_views, cols, view_width, view_height) ==
  IF i >= num_views
  THEN <<>>
  ELSE <<position(i, cols, view_width, view_height)>>
         \o positions_from(i + 1, num_views, cols, view_width, view_height)

(* calculate_grid_dimensions as a function: ((width, height), positions) *)
calculate_grid_dimensions(crate, view_width, view_height, num_views) ==
  LET cols == ceil_sqrt(num_views)
      rows == reduce_rows(cols, naive_rows(num_views, cols), num_views)
  IN [texture_width |-> texture_dim(crate, cols * view_width),
      texture_height |-> texture_dim(crate, rows * view_height),
      positions |-> positions_from(0, num_views, cols, view_width, view_height)]

CgdIdle == [pc |-> "idle"]

(* A call of next_power_of_2 on its own. *)
CallNextPowerOf2 ==
  /\ cgd.pc = "idle"
  /\ \E n \in 0..MaxPow2Arg :
       cgd' = [pc |-> "np2_done", n |-> n, result |-> next_power_of_2(n)]
  /\ UNCHANGED <<pipeVars, visionVars>>

(* calculate_grid_dimensions, lines 89-95 *)
CallCalculateGridDimensions ==
  /\ cgd.pc = "idle"
  /\ \E crate \in Crates, vw \in ViewDims, vh \in ViewDims, nv \in 1..MaxViews :
       LET cols == ceil_sqrt(nv) IN
       cgd' = [pc |-> "loop", crate |-> crate,
               view_width |-> vw, view_height |-> vh, num_views |-> nv,
               cols |-> cols, rows |-> naive_rows(nv, cols),
               iterations |-> 0, underflow |-> FALSE]
  /\ UNCHANGED <<pipeVars, visionVars>>

(* lines 97-100: one evaluation of the while condition, and the body.      *)
(* rows - 1 on rows = 0 leaves the u32 range: a checked build panics, an   *)
(* unchecked one goes on with 2^32 - 1; the call is followed no further.   *)
RowLoop ==
  /\ cgd.pc = "loop"
  /\ IF cgd.rows = 0
     THEN cgd' = [cgd EXCEPT !.pc = "underflowed", !.underflow = TRUE]
     ELSE IF cgd.cols * (cgd.rows - 1) >= cgd.num_views
          THEN cgd' = [cgd EXCEPT !.rows = @ - 1, !.iterations = @ + 1]
          ELSE cgd' = [cgd EXCEPT !.pc = "round"]
  /\ UNCHANGED <<pipeVars, visionVars>>

(* lines 102-139: rounding, placement and the return value *)
RoundAndPlace ==
  /\ cgd.pc = "round"
  /\ LET iw == cgd.cols * cgd.view_width
         ih == cgd.rows * cgd.view_height
     IN cgd' = [pc |-> "done", crate |-> cgd.crate,
                view_width |-> cgd.view_width, view_height |-> cgd.view_height,
                num_views |-> cgd.num_views, cols |-> cgd.cols, rows |-> cgd.rows,
                iterations |-> cgd.iterations,
                underflow |-> cgd.underflow
                              \/ (cgd.crate = "gpu_copy" /\ (iw = 0 \/ ih = 0)),
                initial_texture_width |-> iw, initial_texture_height |-> ih,
                texture_width |-> texture_dim(cgd.crate, iw),
                texture_height |-> texture_dim(cgd.crate, ih),
                positions |-> positions_from(0, cgd.num_views, cgd.cols,
                                             cgd.view_width, cgd.view_height)]
  /\ UNCHANGED <<pipeVars, visionVars>>

(* The padding strip of save_buffer_as_resource (gpu_copy plugin.rs        *)
(* 243-254, bevy_headless plugin.rs 232-243) as a function of the mapped   *)
(* bytes.                                                                  *)

MaxRowBytes == 3        \* bytes_per_row ranges over 1..MaxRowBytes
MaxPadding == 2         \* padded_bytes_per_row - bytes_per_row ranges over 0..MaxPadding
MaxHeight == 3          \* rows of the mapped buffer, 1..MaxHeight

(* <<bytes_per_row, padded_bytes_per_row, height>> of the inputs *)
StripScenario == <<600, 768, 4>>
StripInputs ==
  {<<b, b + p, h>> : b \in 1..MaxRowBytes, p \in 0..MaxPadding, h \in 1..MaxHeight}
    \cup {StripScenario}

(* slice::chunks(n): consecutive chunks of n elements, the last one shorter *)
(* when n does not divide the length                                       *)
chunks(bytes, n) ==
  [c \in 1..ceil_div(Len(bytes), n) |->
     SubSeq(bytes, (c - 1) * n + 1, IF c * n < Len(bytes) THEN c * n ELSE Len(bytes))]

(* &padded_row[..bytes_per_row] *)
row_whole(padded_row, bpr) == padded_row

row_prefix(padded_row, bpr) == SubSeq(padded_row, 1, bpr)

(* the for loop with extend_from_slice *)
RECURSIVE extend_from(_, _, _)
extend_from(rows, c, bpr) ==
  IF c > Len(rows) THEN <<>> ELSE row_prefix(rows[c], bpr) \o extend_from(rows, c + 1, bpr)

strip_padding(image_bytes, bpr, padded) ==
  IF bpr # padded THEN extend_from(chunks(image_bytes, padded), 1, bpr) ELSE image_bytes

(* One padding strip on its own; byte k of the mapped buffer is k, so the  *)
(* result shows where each of its bytes came from.                         *)
CallStripPadding ==
  /\ cgd.pc = "idle"
  /\ \E in \in StripInputs :
       LET image_bytes == [k \in 1..(in[3] * in[2]) |-> k]
       IN cgd' = [pc |-> "unpad_done", bytes_per_row |-> in[1],
                  padded_bytes_per_row |-> in[2], height |-> in[3],
                  image_bytes |-> image_bytes,
                  unpadded |-> strip_padding(image_bytes, in[1], in[2])]
  /\ UNCHANGED <<pipeVars, visionVars>>

----------------------------------------------------------------------------
(* Part 2: the capture pipeline (crate gpu_copy and its example)           *)

(* Bounds of the model *)

MaxBundles == 2         \* setup_render_target is called at most MaxBundles times
MaxRuns == 2            \* frames rendered in one behaviour

(* Inputs of the model *)

Names == {"a", "b"}
ReaderChannel == "a"    \* the name save_img reads ("minimal_example")

(* (viewport_size, num_views) given to setup_render_target: an atlas of    *)
(* 1x1 pixels (4-byte rows, padded to 256) and one of 64x1 pixels (256-byte *)
(* rows, already aligned)                                                  *)
SetupInputs == {<<1, 1, 1>>, <<64, 1, 1>>}

(* The calls of setup_render_target: the reader's channel with either      *)
(* atlas, any other channel with the 1x1 atlas.                            *)
SetupCalls ==
  {c \in Names \X SetupInputs : c[1] = ReaderChannel \/ c[2] = <<1, 1, 1>>}

(* u64 values are four 16-bit limbs, most significant first. *)
LimbBase == 65536

U64Zero == <<0, 0, 0, 0>>
U64Max == <<LimbBase - 1, LimbBase - 1, LimbBase - 1, LimbBase - 1>>
U64MaxMinus1 == <<LimbBase - 1, LimbBase - 1, LimbBase - 1, LimbBase - 2>>

(* u64::wrapping_add(1) *)
RECURSIVE add_one_at(_, _)
add_one_at(x, i) ==
  IF i = 0
  THEN x
  ELSE IF x[i] = LimbBase - 1
       THEN add_one_at([x EXCEPT ![i] = 0], i - 1)
       ELSE [x EXCEPT ![i] = @ + 1]

(* wrapping_sub written for wrapping_add *)
RECURSIVE sub_one_at(_, _)
sub_one_at(x, i) ==
  IF i = 0
  THEN x
  ELSE IF x[i] = 0
       THEN sub_one_at([x EXCEPT ![i] = LimbBase - 1], i - 1)
       ELSE [x EXCEPT ![i] = @ - 1]

wrapping_sub_one(x) == sub_one_at(x, 4)

(* the counter stamped without being advanced *)
wrapping_add_none(x) == x

wrapping_add_one(x) == add_one_at(x, 4)

(* a < b on u64 *)
u64_less(a, b) ==
  \E i \in 1..4 : a[i] < b[i] /\ \A j \in 1..(i - 1) : a[j] = b[j]

u64_leq(a, b) == a = b \/ u64_less(a, b)

(* The frame counter starts at 0 (Local<u64>::default()).  A run on an     *)
(* empty registry only advances it (plugin.rs 203-210), so the state with  *)
(* an empty registry and any counter value is reachable from construction; *)
(* the behaviours that start two runs before the wrap are followed too.    *)
FrameIdStarts == {U64Zero, U64MaxMinus1}

(* TextureFormat::Rgba8UnormSrgb: block 1x1, 4 bytes; wgpu's               *)
(* COPY_BYTES_PER_ROW_ALIGNMENT                                            *)
BytesPerPixel == 4
RowAlignment == 256

align_copy_bytes_per_row(n) == ((n + RowAlignment - 1) \div RowAlignment) * RowAlignment

(* ImageSource::prepare_asset: the strides and the staging buffer size *)
bytes_per_row(size) == size[1] * BytesPerPixel
padded_bytes_per_row(size) == align_copy_bytes_per_row(bytes_per_row(size))

(* plugin.rs 125: (source_size.height * padded_bytes_per_row) as u64 is a  *)
(* u32 product, cast afterwards. padded_bytes_per_row is a multiple of     *)
(* RowAlignment, so the product is counted in units of RowAlignment bytes, *)
(* of which 2^32 bytes are U32Units.                                       *)
U32Units == 16777216

row_units(size) == padded_bytes_per_row(size) \div RowAlignment

mul_overflows(size) == size[2] * row_units(size) >= U32Units

buffer_units(size) == (size[2] * row_units(size)) % U32Units

buffer_size(size) == buffer_units(size) * RowAlignment

(* Pixel data is abstracted to where it came from and how long it is:      *)
(* src is 0 for the zeroed image of ImageWrapper::new, else the bundle     *)
(* whose staging buffer it was read from; stamp is the frame id of the     *)
(* update_data call that stored it (history).                              *)
ZeroImage_one_byte_per_pixel(size) ==
  [src |-> 0, len |-> size[1] * size[2], stamp |-> U64Zero]

ZeroImage(size) == [src |-> 0, len |-> size[1] * size[2] * BytesPerPixel, stamp |-> U64Zero]

(* ImageWrapper::new *)
ImageWrapper_new(size) == [frame_id |-> U64Zero, img_buffer |-> ZeroImage(size)]

(* The bundles the render world sees: extracted, in spawn order. *)
RenderBundles ==
  SelectSeq([i \in 1..Len(export_bundles) |-> i],
            LAMBDA i : export_bundles[i].status # "spawned")

(* sources.get(source_handle) *)
Resolvable(i) == export_bundles[i].status = "prepared"

(* completed counts the map requests of the run that the device has       *)
(* completed, in submission order.                                         *)
CoordIdle ==
  [pc |-> "idle", futures |-> <<>>, k |-> 0, image_bytes |-> <<>>, target |-> "",
   cause |-> "", completed |-> 0]

(* locked_images.is_empty(), plugin.rs 207 *)
registry_never_empty(images) == FALSE

registry_is_empty(images) == DOMAIN images = {}

(* parking_lot::Mutex::lock: blocks while another thread holds the mutex. *)
can_lock == lock = "none"

(* setup_render_target, utils.rs 143-197.  The registry guard is held from *)
(* the insert to the end of the function; the spawned bundle reaches the   *)
(* render world at the next extraction.  In the bundle, size is the size   *)
(* of its render target, image whether that texture resolves, mapped the   *)
(* state of its staging buffer, copied whether the capture node recorded a *)
(* copy this frame; input and viewports are history, the arguments of the  *)
(* call and the offsets it returned.                                       *)
setup_render_target(target_name, input) ==
  LET grid == calculate_grid_dimensions("gpu_copy", input[1], input[2], input[3])
      size == <<grid.texture_width, grid.texture_height>>
  IN /\ lock = "none"
     /\ coord.pc # "panicked"
     /\ Len(export_bundles) < MaxBundles
     /\ exported_images' =
          [n \in DOMAIN exported_images \cup {target_name} |->
             IF n = target_name THEN ImageWrapper_new(size) ELSE exported_images[n]]
     /\ export_bundles' = Append(export_bundles,
          [name |-> target_name, size |-> size, status |-> "spawned", mapped |-> FALSE,
           image |-> TRUE, copied |-> FALSE, input |-> input,
           viewports |-> grid.positions, texture |-> size])
     /\ UNCHANGED <<visionVars, cgd, frame_id, lock, coord, seen, nruns, wrapped, publish_log>>

SetupRenderTarget ==
  \E call \in SetupCalls : setup_render_target(call[1], call[2])

(* Assets<ImageSource>::remove by the application: the prepared asset is   *)
(* dropped at the next extraction, the bundle stays.                       *)
RemoveSource ==
  /\ coord.pc = "idle"
  /\ \E i \in 1..Len(export_bundles) :
       /\ export_bundles[i].status = "prepared"
       /\ export_bundles' = [export_bundles EXCEPT ![i].status = "removed"]
  /\ UNCHANGED <<visionVars, cgd, exported_images, frame_id, lock, coord, seen, nruns, wrapped, publish_log>>

(* The size the application gives a render target it resizes *)
ResizedTexture == <<64, 1>>

(* Image::resize on the render target by the application (Assets<Image>    *)
(* get_mut): the GpuImage is prepared again with the new size.  The        *)
(* ImageSource asset is not touched, so RenderAssetPlugin::<ImageSource>   *)
(* (plugin.rs 295) does not run prepare_asset for it again.  texture is    *)
(* the size of the bundle's render target as it is now.                    *)
ResizeTexture ==
  /\ coord.pc = "idle"
  /\ \E i \in 1..Len(export_bundles) :
       /\ export_bundles[i].image
       /\ export_bundles[i].texture # ResizedTexture
       /\ export_bundles' = [export_bundles EXCEPT ![i].texture = ResizedTexture]
  /\ UNCHANGED <<visionVars, cgd, exported_images, frame_id, lock, coord, seen, nruns, wrapped, publish_log>>

(* Assets<Image>::remove by the application: from the next extraction on  *)
(* RenderAssets<Image> no longer resolves the bundle's render target.      *)
RemoveImage ==
  /\ coord.pc = "idle"
  /\ \E i \in 1..Len(export_bundles) :
       /\ export_bundles[i].status # "removed"
       /\ export_bundles[i].image
       /\ export_bundles' = [export_bundles EXCEPT ![i].image = FALSE]
  /\ UNCHANGED <<visionVars, cgd, exported_images, frame_id, lock, coord, seen, nruns, wrapped, publish_log>>

(* A panic on the render thread: the guards are dropped by the unwinding   *)
(* (parking_lot locks are not poisoned) and the thread is gone.            *)
Panicked(cause) == [coord EXCEPT !.pc = "panicked", !.cause = cause]

(* ImageSource::prepare_asset, plugin.rs 106-134: images.get(..).unwrap()  *)
prepare_asset(bundle) ==
  IF bundle.image
  THEN [bundle EXCEPT !.status = "prepared", !.size = bundle.texture]
  ELSE [bundle EXCEPT !.status = "panic"]

(* ImageExportNode::run, node.rs 27-44: a copy is recorded for every        *)
(* prepared source whose texture resolves.                                 *)
node_records_copy(bundle) == bundle.status = "prepared" /\ bundle.image

(* node.rs 31-42: the copy the node records for a prepared source *)
copy_command(bundle) ==
  [offset |-> 0,
   bytes_per_row |-> padded_bytes_per_row(bundle.size),
   rows_per_image |-> "None",
   size |-> bundle.size]

(* One frame of the render app up to the coordinator: extraction of the    *)
(* bundles, prepare_asset for the new sources, and the capture node.       *)
BeginFrame ==
  /\ coord.pc = "idle"
  /\ nruns < MaxRuns
  /\ nruns' = nruns + 1
  /\ LET prepared == [i \in 1..Len(export_bundles) |->
                        IF export_bundles[i].status = "spawned"
                        THEN prepare_asset(export_bundles[i])
                        ELSE export_bundles[i]]
     IN IF \E i \in 1..Len(prepared) : prepared[i].status = "panic"
        THEN /\ coord' = Panicked("prepare_asset")
             /\ UNCHANGED export_bundles
        ELSE /\ export_bundles' =
                  [i \in 1..Len(prepared) |->
                     [prepared[i] EXCEPT !.copied = node_records_copy(prepared[i])]]
             /\ coord' = [coord EXCEPT !.pc = "begin"]
  /\ UNCHANGED <<visionVars, cgd, exported_images, frame_id, lock, seen, wrapped, publish_log>>

(* plugin.rs 203: the counter is advanced at the top of the function,      *)
(* before the registry is looked at.                                       *)
counter_after_publishing_run(counter, images) ==
  IF registry_is_empty(images) THEN counter ELSE wrapping_add_one(counter)

counter_after_run(counter, images) == wrapping_add_one(counter)

(* save_buffer_as_resource, plugin.rs 203-210 *)
SaveBufferBegin ==
  /\ coord.pc = "begin"
  /\ can_lock
  /\ frame_id' = counter_after_run(frame_id, exported_images)
  /\ wrapped' = (wrapped \/ frame_id = U64Max)
  /\ IF registry_is_empty(exported_images)
     THEN /\ coord' = CoordIdle
          /\ UNCHANGED lock
     ELSE /\ coord' = [coord EXCEPT !.pc = "map"]
          /\ lock' = "render"
  /\ UNCHANGED <<visionVars, cgd, exported_images, export_bundles, seen, nruns, publish_log>>

(* plugin.rs 214-231: a map request for every bundle whose source resolves; *)
(* a request on a buffer that is still mapped completes with an error, and *)
(* the device may reject a request (at most one per run here).             *)
SaveBufferMapRequests ==
  /\ coord.pc = "map"
  /\ LET asked == SelectSeq(RenderBundles, Resolvable)
     IN /\ \E rejected \in 0..Len(asked) :
             coord' = [coord EXCEPT
                       !.pc = "poll",
                       !.futures = [j \in 1..Len(asked) |->
                                      [buffer |-> asked[j],
                                       ok |-> j # rejected
                                              /\ ~export_bundles[asked[j]].mapped]]]
        /\ export_bundles' =
             [i \in 1..Len(export_bundles) |->
                IF \E j \in 1..Len(asked) : asked[j] = i
                THEN [export_bundles[i] EXCEPT !.mapped = TRUE]
                ELSE export_bundles[i]]
  /\ UNCHANGED <<visionVars, cgd, exported_images, frame_id, lock, seen, nruns, wrapped, publish_log>>

(* The device completes the next pending map request and sends its result *)
(* through the oneshot channel (plugin.rs 222-227).                        *)
DeviceCompletesMap ==
  /\ coord.pc = "poll"
  /\ coord.completed < Len(coord.futures)
  /\ coord' = [coord EXCEPT !.completed = @ + 1]
  /\ UNCHANGED <<visionVars, cgd, exported_images, export_bundles, frame_id, lock, seen, nruns,
                 wrapped, publish_log>>

(* plugin.rs 233-236: poll(Maintain::Wait) and block_on(future) have no    *)
(* timeout; they return once the map requests have completed.              *)
wait_returns_at_once(c) == TRUE

wait_is_over(c) == c.completed = Len(c.futures)

(* plugin.rs 233: render_device.poll(Maintain::Wait) *)
SaveBufferPoll ==
  /\ coord.pc = "poll"
  /\ wait_is_over(coord)
  /\ coord' = [coord EXCEPT !.pc = "zip", !.k = 1]
  /\ UNCHANGED <<visionVars, cgd, exported_images, export_bundles, frame_id, lock, seen, nruns,
                 wrapped, publish_log>>

(* plugin.rs 243-254: the length left by the padding strip of `len` bytes  *)
(* with the strides of `size`; -1 when &padded_row[..bytes_per_row] is out *)
(* of range for the last chunk.                                            *)
unpadded_len(len, size) ==
  LET bpr == bytes_per_row(size)
      padded == padded_bytes_per_row(size)
  IN IF bpr = padded
     THEN len
     ELSE IF len % padded = 0
          THEN (len \div padded) * bpr
          ELSE IF len % padded < bpr THEN -1 ELSE (len \div padded + 1) * bpr

(* plugin.rs 236: block_on(future).unwrap().unwrap() goes on only when the *)
(* map completed without an error.                                         *)
future_ignored(fut) == TRUE

future_succeeded(fut) == fut.ok

(* plugin.rs 234-262, one step of the zipped loop up to the frame id that  *)
(* update_data stores (utils.rs 52); the loop ends with the shorter of     *)
(* futures and export_bundles, and the function returns.                   *)
SaveBufferNext ==
  /\ coord.pc = "zip"
  /\ IF coord.k > Len(coord.futures) \/ coord.k > Len(RenderBundles)
     THEN /\ coord' = CoordIdle
          /\ lock' = "none"
          /\ UNCHANGED <<exported_images, export_bundles, publish_log>>
     ELSE LET fut == coord.futures[coord.k]
              b == RenderBundles[coord.k]
              bundle == export_bundles[b]
              mapped_len == buffer_size(export_bundles[fut.buffer].size)
              len == unpadded_len(mapped_len, bundle.size)
          IN IF ~future_succeeded(fut)
             THEN /\ coord' = Panicked("map_failed")
                  /\ lock' = "none"
                  /\ UNCHANGED <<exported_images, export_bundles, publish_log>>
             ELSE IF ~Resolvable(b)
             THEN /\ coord' = [coord EXCEPT !.k = @ + 1]
                  /\ UNCHANGED <<exported_images, export_bundles, lock, publish_log>>
             ELSE IF len < 0
             THEN /\ coord' = Panicked("slice_out_of_range")
                  /\ lock' = "none"
                  /\ export_bundles' = [export_bundles EXCEPT ![b].mapped = FALSE]
                  /\ UNCHANGED <<exported_images, publish_log>>
             ELSE IF bundle.name \notin DOMAIN exported_images
             THEN /\ coord' = [coord EXCEPT !.k = @ + 1]
                  /\ export_bundles' = [export_bundles EXCEPT ![b].mapped = FALSE]
                  /\ UNCHANGED <<exported_images, lock, publish_log>>
             ELSE /\ coord' = [coord EXCEPT
                                 !.pc = "copy",
                                 !.target = bundle.name,
                                 !.image_bytes = [src |-> fut.buffer, len |-> len,
                                                  stamp |-> frame_id]]
                  /\ export_bundles' = [export_bundles EXCEPT ![b].mapped = FALSE]
                  /\ exported_images' =
                       [exported_images EXCEPT ![bundle.name].frame_id = frame_id]
                  /\ publish_log' =
                       [publish_log EXCEPT ![bundle.name] = Append(@, frame_id)]
                  /\ UNCHANGED lock
  /\ UNCHANGED <<visionVars, cgd, frame_id, seen, nruns, wrapped>>

(* [u8]::copy_from_slice, utils.rs 53: the bytes are copied into the       *)
(* destination in place, which needs both lengths to be the same.          *)
copy_from_slice_any(dst, src) == TRUE

copy_from_slice_fits(dst, src) == src.len = dst.len

(* ImageWrapper::update_data, utils.rs 53: copy_from_slice panics when the *)
(* lengths differ, after the frame id was stored.                          *)
SaveBufferCopy ==
  /\ coord.pc = "copy"
  /\ IF copy_from_slice_fits(exported_images[coord.target].img_buffer, coord.image_bytes)
     THEN /\ exported_images' =
               [exported_images EXCEPT ![coord.target].img_buffer = coord.image_bytes]
          /\ coord' = [coord EXCEPT !.pc = "zip", !.k = @ + 1, !.image_bytes = <<>>,
                                    !.target = ""]
          /\ UNCHANGED lock
     ELSE /\ coord' = Panicked("copy_from_slice")
          /\ lock' = "none"
          /\ UNCHANGED exported_images
  /\ UNCHANGED <<visionVars, cgd, export_bundles, frame_id, seen, nruns, wrapped, publish_log>>

(* save_img, gpu_copy_minimal_example main.rs 79-98: under the registry    *)
(* mutex and the entry's read lock, the frame id and a clone of the image. *)
(* The rest of seen is history: publishes, the update_data calls on the    *)
(* entry so far; registrations, the setup_render_target calls for the name *)
(* so far; again, whether this read follows a read of the same entry with  *)
(* no publish and no registration in between; wrote, whether the tick     *)
(* wrote the image to out/minimal_example_<frame_id>.png.                  *)
NoView == [frame_id |-> <<>>, img_buffer |-> <<>>, publishes |-> 0,
           registrations |-> 0, again |-> FALSE, wrote |-> FALSE]

Registrations(name) ==
  Cardinality({i \in 1..Len(export_bundles) : export_bundles[i].name = name})

(* main.rs 85-88: image.frame_id and image.img_buffer.clone() *)
read_frame_counter(entry) == [frame_id |-> frame_id, img_buffer |-> entry.img_buffer]

read_entry(entry) == [frame_id |-> entry.frame_id, img_buffer |-> entry.img_buffer]

(* main.rs 90-96: the writer thread is spawned for every snapshot read;    *)
(* last is what the previous tick read.                                    *)
writes_file(last, entry) == TRUE

(* main.rs 82-83: locked_images.get(..) borrows the entry; a take would    *)
(* remove it.                                                              *)
registry_after_take(images, name) == [n \in DOMAIN images \ {name} |-> images[n]]

registry_after_get(images, name) == images

SaveImg ==
  /\ can_lock
  /\ ReaderChannel \in DOMAIN exported_images
  /\ exported_images' = registry_after_get(exported_images, ReaderChannel)
  /\ seen' = read_entry(exported_images[ReaderChannel])
              @@ [wrote |-> writes_file(seen, exported_images[ReaderChannel]),
                  publishes |-> Len(publish_log[ReaderChannel]),
                  registrations |-> Registrations(ReaderChannel),
                  again |-> /\ seen # NoView
                            /\ seen.publishes = Len(publish_log[ReaderChannel])
                            /\ seen.registrations = Registrations(ReaderChannel)]
  /\ UNCHANGED <<visionVars, cgd, export_bundles, frame_id, lock, coord, nruns,
                 wrapped, publish_log>>

----------------------------------------------------------------------------
(* Part 3: the vision sensors of episode-5 on crate bevy_headless          *)

(* Bounds of the model *)

MaxSensors == 3         \* Sensor::Vision entities spawned in one behaviour
MaxPublishes == 2       \* runs of bevy_headless's save_buffer_as_resource

(* add_vision: let viewport_size = (50, 20) *)
VisionViewport == <<50, 20>>

(* ExportImage::new(size): a zeroed image; version is history, the number  *)
(* of copy_from_slice calls that have overwritten it.                      *)
ExportImage_new(size) == [width |-> size[1], height |-> size[2], version |-> 0]

NoParams == <<>>

(* Sensor::Vision(Vision::default()) *)
Vision_default == [visual_sensor |-> NoParams, sensing |-> FALSE, atlas |-> 0]

NoCall == [pc |-> "none"]

(* A sensor entity is spawned by the game. *)
SpawnSensor ==
  /\ view.pc # "panicked"
  /\ Len(visions) < MaxSensors
  /\ visions' = Append(visions, Vision_default)
  /\ UNCHANGED <<cgd, pipeVars, headless_images, view>>

(* Query<.., (With<Sensor>, Without<VisionSensing>)>, in entity order *)
WithoutVisionSensing ==
  SelectSeq([i \in 1..Len(visions) |-> i], LAMBDA i : ~visions[i].sensing)

(* the position of sensor i in the query *)
QueryIndex(i) == CHOOSE j \in 1..Len(WithoutVisionSensing) : WithoutVisionSensing[j] = i

(* vision.rs 155-158: if visions.is_empty() { return; } *)
add_vision_never_returns_early(num_pending) == FALSE

add_vision_returns_early(num_pending) == num_pending = 0

(* add_vision past the early return with the grid of its num_views > 0 *)
AddVisionAtlas ==
  /\ LET grid == calculate_grid_dimensions("bevy_headless", VisionViewport[1],
                                           VisionViewport[2], Len(WithoutVisionSensing))
         size == <<grid.texture_width, grid.texture_height>>
         viewports == grid.positions
     IN /\ headless_images' = Append(headless_images, ExportImage_new(size))
        /\ visions' =
             [i \in 1..Len(visions) |->
                IF visions[i].sensing \/ QueryIndex(i) > Len(viewports)
                THEN visions[i]
                ELSE [visual_sensor |-> [x |-> viewports[QueryIndex(i)][1],
                                         y |-> viewports[QueryIndex(i)][2],
                                         width |-> VisionViewport[1],
                                         height |-> VisionViewport[2]],
                      sensing |-> TRUE,
                      atlas |-> Len(headless_images) + 1]]
  /\ UNCHANGED view

(* add_vision, vision.rs 148-232, with bevy_headless::setup_render_target  *)
(* (utils.rs 139-192): one atlas for the sensors that have none yet; atlas *)
(* is history, the index of the registry entry pushed by this call.  A     *)
(* call that returns early changes nothing.  calculate_grid_dimensions     *)
(* with num_views = 0 has no defined placement and is followed no further. *)
AddVision ==
  /\ view.pc # "panicked"
  /\ ~add_vision_returns_early(Len(WithoutVisionSensing))
  /\ IF Len(WithoutVisionSensing) = 0
     THEN /\ view' = [pc |-> "panicked", cause |-> "num_views_zero"]
          /\ UNCHANGED <<headless_images, visions>>
     ELSE AddVisionAtlas
  /\ UNCHANGED <<cgd, pipeVars>>

(* bevy_headless save_buffer_as_resource, plugin.rs 189-282, with every    *)
(* source resolvable: under the registry mutex, the readback of bundle i   *)
(* overwrites image i.                                                     *)
HeadlessSaveBuffer ==
  /\ view.pc # "panicked"
  /\ Len(headless_images) > 0
  /\ \A i \in 1..Len(headless_images) : headless_images[i].version < MaxPublishes
  /\ headless_images' =
       [i \in 1..Len(headless_images) |->
          [headless_images[i] EXCEPT !.version = @ + 1]]
  /\ UNCHANGED <<cgd, pipeVars, visions, view>>

(* VisionView::get_view, vision.rs 48-56.  locked_images[0] panics on an   *)
(* empty Vec and GenericImageView::view panics on a region outside the     *)
(* image.  The returned image is kept as the place it was copied from:     *)
(* pixel (i, j) of it is pixel (x + i, y + j) of version `version` of      *)
(* registry entry `entry`.                                                 *)
get_view(params) ==
  IF Len(headless_images) = 0
  THEN [pc |-> "panicked", cause |-> "index_out_of_bounds"]
  ELSE LET image == headless_images[1]
       IN IF \/ params.x + params.width > image.width
             \/ params.y + params.height > image.height
          THEN [pc |-> "panicked", cause |-> "view_out_of_bounds",
                image_width |-> image.width, image_height |-> image.height]
          ELSE [pc |-> "returned",
                image_width |-> image.width, image_height |-> image.height,
                result |-> [width |-> params.width, height |-> params.height,
                            entry |-> 1, version |-> image.version,
                            x |-> params.x, y |-> params.y]]

(* The callers of get_view: a vision sensor with the region add_vision     *)
(* gave it (ai_agent.rs collect_sensations hands the VisionView to the     *)
(* sensor), or another system with a region of one viewport.  channel,     *)
(* entries and versions are history: the atlas made for the caller, and    *)
(* the registry at the time of the call.                                   *)
Callers ==
  {[sensor |-> i, channel |-> visions[i].atlas, params |-> visions[i].visual_sensor] :
     i \in {j \in 1..Len(visions) : visions[j].sensing}}
  \cup {[sensor |-> 0, channel |-> 0,
         params |-> [x |-> 0, y |-> 0, width |-> VisionViewport[1],
                     height |-> VisionViewport[2]]]}

GetView ==
  /\ view.pc # "panicked"
  /\ \E c \in Callers :
       view' = [call |-> c,
                entries |-> Len(headless_images),
                versions |-> [i \in 1..Len(headless_images) |-> headless_images[i].version]]
               @@ get_view(c.params)
  /\ UNCHANGED <<cgd, pipeVars, headless_images, visions>>

----------------------------------------------------------------------------
(* Part 4: the render app's frame as GpuToCpuCpyPlugin::build orders it    *)

(* The steps of one frame that the plugin adds or orders itself against:   *)
(* two render graph nodes, the end of the Render set (in which the graph   *)
(* runs), the coordinator system and the Cleanup set.                      *)
FrameSteps ==
  {"camera_driver", "image_export_node", "render_set", "save_buffer_as_resource",
   "cleanup_set"}

(* plugin.rs 317-318: graph.add_node(NodeName, ..) and the edge from the   *)
(* camera driver to it.                                                    *)
graph_without_edges == {}

graph_edges == {<<"camera_driver", "image_export_node">>}

(* The render graph is run by the Render set: every node ends before the   *)
(* set does.                                                               *)
graph_in_render_set ==
  {<<"camera_driver", "render_set">>, <<"image_export_node", "render_set">>}

(* plugin.rs 310-313: .after(RenderSet::Render).before(RenderSet::Cleanup) *)
system_order ==
  {<<"render_set", "save_buffer_as_resource">>,
   <<"save_buffer_as_resource", "cleanup_set">>}

Before == graph_edges \cup graph_in_render_set \cup system_order

Ran(s) == \E k \in 1..Len(cgd.ran) : cgd.ran[k] = s

(* A frame of the render app begins. *)
StartFrame ==
  /\ cgd.pc = "idle"
  /\ cgd' = [pc |-> "frame", ran |-> <<>>]
  /\ UNCHANGED <<pipeVars, visionVars>>

(* The executor runs any step all of whose predecessors have run. *)
RunFrameStep ==
  /\ cgd.pc = "frame"
  /\ \E s \in FrameSteps :
       /\ ~Ran(s)
       /\ \A e \in Before : e[2] = s => Ran(e[1])
       /\ cgd' = [cgd EXCEPT !.ran = Append(@, s)]
  /\ UNCHANGED <<pipeVars, visionVars>>

(* Sizes of the atlas texture an ImageSource is prepared for *)
TextureSizes ==
  {<<1, 1>>, <<63, 2>>, <<64, 3>>, <<65, 2>>, <<128, 1>>,
   <<32768, 32767>>, <<32768, 32768>>, <<32768, 32769>>}

(* ImageSource::prepare_asset on its own, plugin.rs 113-133, the buffer    *)
(* size in units of RowAlignment bytes. An overflowing product panics in a *)
(* build with overflow checks and wraps in one without.                    *)
CallPrepareAsset ==
  /\ cgd.pc = "idle"
  /\ \E size \in TextureSizes, overflow_checks \in BOOLEAN :
       cgd' = IF overflow_checks /\ mul_overflows(size)
              THEN [pc |-> "prepare_panic", source_size |-> size]
              ELSE [pc |-> "prepared", source_size |-> size,
                    bytes_per_row |-> bytes_per_row(size),
                    padded_bytes_per_row |-> padded_bytes_per_row(size),
                    buffer_units |-> buffer_units(size)]
  /\ UNCHANGED <<pipeVars, visionVars>>

----------------------------------------------------------------------------
(* Part 5: the locks of the registry, as each component takes them         *)

Threads == {"render", "main"}

(* save_buffer_as_resource, plugin.rs 205, 258 and the ends of the scopes  *)
(* at 260 and 263                                                          *)
coordinator_locks == <<"lock_registry", "write_entry", "unlock_entry", "unlock_registry">>

(* save_img, main.rs 81, 84 and the ends of the scopes at 97 and 98.       *)
(* save_img_locks_entry_first: the entry's lock taken through a kept Arc   *)
(* before the registry's.                                                  *)
save_img_locks_entry_first ==
  <<"read_entry", "lock_registry", "unlock_registry", "unlock_entry">>

save_img_locks == <<"lock_registry", "read_entry", "unlock_entry", "unlock_registry">>

(* VisionView::get_view, vision.rs 50, 53; the guards are dropped in the   *)
(* reverse order at 55                                                     *)
get_view_locks == <<"lock_registry", "read_entry", "unlock_entry", "unlock_registry">>

(* setup_render_target, utils.rs 185 and the end of the function *)
setup_render_target_locks == <<"lock_registry", "unlock_registry">>

MainComponents == {"save_img", "get_view", "setup_render_target"}

(* The lock operations of the component a thread is running *)
LocksOf(component) ==
  CASE component = "save_buffer_as_resource" -> coordinator_locks
    [] component = "save_img" -> save_img_locks
    [] component = "get_view" -> get_view_locks
    [] component = "setup_render_target" -> setup_render_target_locks

(* parking_lot Mutex and RwLock: whether thread t can do op without        *)
(* waiting.                                                                *)
lock_is_free(t, op) ==
  CASE op = "lock_registry" -> cgd.registry = "none"
    [] op = "read_entry" -> \A u \in Threads \ {t} : cgd.entry[u] # "write"
    [] op = "write_entry" -> \A u \in Threads \ {t} : cgd.entry[u] = "none"
    [] OTHER -> TRUE

NextLockOp(t) == LocksOf(cgd.runs[t])[cgd.at[t] + 1]

(* The render thread runs the coordinator, the main thread a consumer or a *)
(* setup call.                                                             *)
StartThreads ==
  /\ cgd.pc = "idle"
  /\ \E c \in MainComponents :
       cgd' = [pc |-> "locks",
               runs |-> [t \in Threads |->
                           IF t = "render" THEN "save_buffer_as_resource" ELSE c],
               at |-> [t \in Threads |-> 0],
               registry |-> "none",
               entry |-> [t \in Threads |-> "none"]]
  /\ UNCHANGED <<pipeVars, visionVars>>

(* A thread does its next lock operation when it does not have to wait;    *)
(* after the last one the main thread goes on with any of its components   *)
(* and the render thread with the next frame's coordinator run.            *)
LockStep ==
  /\ cgd.pc = "locks"
  /\ \E t \in Threads :
       LET op == NextLockOp(t)
           last == cgd.at[t] + 1 = Len(LocksOf(cgd.runs[t]))
       IN /\ lock_is_free(t, op)
          /\ \E c \in (IF t = "main" /\ last THEN MainComponents ELSE {cgd.runs[t]}) :
               cgd' = [cgd EXCEPT
                  !.at[t] = IF last THEN 0 ELSE @ + 1,
                  !.runs[t] = c,
                  !.registry = CASE op = "lock_registry" -> t
                                 [] op = "unlock_registry" -> "none"
                                 [] OTHER -> @,
                  !.entry[t] = CASE op = "read_entry" -> "read"
                                 [] op = "write_entry" -> "write"
                                 [] op = "unlock_entry" -> "none"
                                 [] OTHER -> @]
  /\ UNCHANGED <<pipeVars, visionVars>>

InitVision ==
  /\ headless_images = <<>>
  /\ visions = <<>>
  /\ view = NoCall

InitPipeline ==
  /\ exported_images = <<>>
  /\ export_bundles = <<>>
  /\ frame_id \in FrameIdStarts
  /\ lock = "none"
  /\ coord = CoordIdle
  /\ seen = NoView
  /\ nruns = 0
  /\ wrapped = FALSE
  /\ publish_log = [n \in Names |-> <<>>]

InitLayout ==
  /\ cgd = CgdIdle
  /\ InitVision
  /\ exported_images = <<>>
  /\ export_bundles = <<>>
  /\ frame_id = U64Zero
  /\ lock = "none"
  /\ coord = CoordIdle
  /\ seen = NoView
  /\ nruns = 0
  /\ wrapped = FALSE
  /\ publish_log = [n \in Names |-> <<>>]

NextLayout ==
  \/ CallNextPowerOf2
  \/ CallCalculateGridDimensions
  \/ RowLoop
  \/ RoundAndPlace
  \/ CallStripPadding
  \/ StartFrame
  \/ RunFrameStep
  \/ CallPrepareAsset
  \/ StartThreads
  \/ LockStep

SpecLayout == InitLayout /\ [][NextLayout]_vars

(* A running call always takes its next step. *)
SpecLayoutFair == SpecLayout /\ WF_vars(RowLoop) /\ WF_vars(RoundAndPlace)

Init == cgd = CgdIdle /\ InitPipeline /\ InitVision

CoordinatorStep ==
  SaveBufferBegin \/ SaveBufferMapRequests \/ SaveBufferPoll \/ SaveBufferNext
    \/ SaveBufferCopy

Next ==
  \/ SetupRenderTarget
  \/ RemoveSource
  \/ RemoveImage
  \/ BeginFrame
  \/ SaveBufferBegin
  \/ SaveBufferMapRequests
  \/ DeviceCompletesMap
  \/ SaveBufferPoll
  \/ SaveBufferNext
  \/ SaveBufferCopy
  \/ SaveImg

Spec == Init /\ [][Next]_vars

NextVision == SpawnSensor \/ AddVision \/ HeadlessSaveBuffer \/ GetView

SpecVision == InitLayout /\ [][NextVision]_vars

(* The render thread and the device on their own: every step of a         *)
(* coordinator run is taken once it can be, and the device completes every *)
(* pending map request.                                                    *)
NextRun ==
  \/ SetupRenderTarget
  \/ BeginFrame
  \/ SaveBufferBegin
  \/ SaveBufferMapRequests
  \/ DeviceCompletesMap
  \/ SaveBufferPoll
  \/ SaveBufferNext
  \/ SaveBufferCopy

SpecRun == Init /\ [][NextRun]_vars

(* The render thread next to an application that resizes render targets. *)
NextResize == NextRun \/ ResizeTexture

SpecResize == Init /\ [][NextResize]_vars

SpecRunFair ==
  /\ SpecRun
  /\ WF_vars(SaveBufferBegin) /\ WF_vars(SaveBufferMapRequests)
  /\ WF_vars(SaveBufferPoll) /\ WF_vars(SaveBufferNext) /\ WF_vars(SaveBufferCopy)
  /\ WF_vars(DeviceCompletesMap)

(* The consumers of both registries next to the setup calls. *)
NextConsumers ==
  \/ SetupRenderTarget
  \/ SaveImg
  \/ SpawnSensor
  \/ AddVision
  \/ HeadlessSaveBuffer
  \/ GetView

SpecConsumers == Init /\ [][NextConsumers]_vars

(* Part 1: properties of the Layout Calculator *)

IsPowerOfTwo(x) == \E k \in 0..30 : x = 2 ^ k

(* The smallest power of two >= x, stated without the code's operators. *)
IsSmallestPowerOfTwoAtLeast(p, x) ==
  /\ IsPowerOfTwo(p)
  /\ p >= x
  /\ \A k \in 0..30 : 2 ^ k >= x => p <= 2 ^ k

CgdReturned == cgd.pc = "done"

Rect(i) ==
  [x |-> cgd.positions[i][1], y |-> cgd.positions[i][2],
   w |-> cgd.view_width, h |-> cgd.view_height]

RectsOverlap(a, b) ==
  /\ a.x < b.x + b.w /\ b.x < a.x + a.w
  /\ a.y < b.y + b.h /\ b.y < a.y + a.h

(* C1: every viewport rectangle returned by calculate_grid_dimensions lies *)
(* fully inside the atlas: x + view_width <= atlas_width and               *)
(* y + view_height <= atlas_height for each offset (x, y).                 *)
C1_ViewportsInsideAtlas ==
  CgdReturned =>
    \A i \in 1..Len(cgd.positions) :
      /\ cgd.positions[i][1] + cgd.view_width <= cgd.texture_width
      /\ cgd.positions[i][2] + cgd.view_height <= cgd.texture_height

(* C2: next_power_of_2(0) = 1, and for n > 0 next_power_of_2(n) is the     *)
(* smallest power of two that is >= n.                                     *)
C2_NextPowerOf2 ==
  cgd.pc = "np2_done" =>
    IF cgd.n = 0
    THEN cgd.result = 1
    ELSE IsSmallestPowerOfTwoAtLeast(cgd.result, cgd.n)

(* C3: calculate_grid_dimensions returns exactly num_views offsets, and    *)
(* the num_views rectangles (offset_i, view_width x view_height) are       *)
(* pairwise non-overlapping.                                               *)
C3_ExactlyNumViewsDisjoint ==
  CgdReturned =>
    /\ Len(cgd.positions) = cgd.num_views
    /\ \A i, j \in 1..Len(cgd.positions) :
         i # j => ~RectsOverlap(Rect(i), Rect(j))

C3_Witness ==
  /\ CgdReturned
  /\ cgd.num_views = MaxViews
  /\ cgd.rows > 1 /\ cgd.cols > 1

(* C4: both atlas dimensions are powers of two; a dimension equals the     *)
(* tightly packed grid size (cols*view_width, rows*view_height) when that  *)
(* size is already a power of two, and otherwise is the next power of two  *)
(* above it.                                                               *)
C4_AtlasPowersOfTwo ==
  CgdReturned =>
    /\ IsSmallestPowerOfTwoAtLeast(cgd.texture_width, cgd.cols * cgd.view_width)
    /\ IsSmallestPowerOfTwoAtLeast(cgd.texture_height, cgd.rows * cgd.view_height)

(* C5: the grid has cols = ceil(sqrt(num_views)), and rows is the value    *)
(* with cols*rows >= num_views and cols*(rows-1) < num_views (no entirely  *)
(* empty last row).                                                        *)
C5_GridShape ==
  CgdReturned =>
    /\ cgd.cols * cgd.cols >= cgd.num_views
    /\ (cgd.cols - 1) * (cgd.cols - 1) < cgd.num_views
    /\ cgd.cols * cgd.rows >= cgd.num_views
    /\ cgd.cols * (cgd.rows - 1) < cgd.num_views

C5_Witness ==
  /\ CgdReturned
  /\ cgd.num_views = 7 /\ cgd.cols = 3 /\ cgd.rows = 3

(* C6: viewport i (0-indexed) is placed row-major at                       *)
(* ((i mod cols) * view_width, (i div cols) * view_height), with           *)
(* cols = ceil(sqrt(num_views)); num_views = 4 with a 200x50 view gives    *)
(* offsets [(0,0),(200,0),(0,50),(200,50)] and atlas (512,128).            *)
C6_RowMajorPlacement ==
  CgdReturned =>
    /\ \A i \in 0..(cgd.num_views - 1) :
         \E c \in 1..cgd.num_views :
           /\ c * c >= cgd.num_views /\ (c - 1) * (c - 1) < cgd.num_views
           /\ Len(cgd.positions) > i
           /\ cgd.positions[i + 1] = <<(i % c) * cgd.view_width,
                                       (i \div c) * cgd.view_height>>
    /\ (cgd.num_views = 4 /\ cgd.view_width = 200 /\ cgd.view_height = 50) =>
         /\ cgd.positions = <<(<<0, 0>>), (<<200, 0>>), (<<0, 50>>), (<<200, 50>>)>>
         /\ cgd.texture_width = 512 /\ cgd.texture_height = 128

C6_Witness ==
  /\ CgdReturned
  /\ cgd.crate = "gpu_copy"
  /\ cgd.num_views = 4 /\ cgd.view_width = 200 /\ cgd.view_height = 50

(* C7: calculate_grid_dimensions cannot fail for valid positive inputs:    *)
(* the row-reduction loop terminates (every started call returns) and no   *)
(* subtraction (rows - 1, n - 1, initial - 1) underflows.                  *)
C7_NoFailure ==
  /\ [](cgd.pc \in {"loop", "round", "done", "underflowed"} => ~cgd.underflow)
  /\ [](cgd.pc # "underflowed")
  /\ ((cgd.pc = "loop") ~> (cgd.pc = "done"))

C7_Witness ==
  /\ CgdReturned
  /\ cgd.num_views = MaxViews
  /\ ~cgd.underflow

----------------------------------------------------------------------------
(* Part 2: properties of the capture pipeline *)

FrameIdsNonDecreasing ==
  \A n \in DOMAIN exported_images :
    u64_leq(exported_images[n].frame_id, exported_images'[n].frame_id)

(* C8 as stated: for every channel, the frame_id stored in its registry    *)
(* snapshot is monotonically non-decreasing over any sequence of           *)
(* coordinator runs and publishes, including when the u64 frame counter is *)
(* advanced with wrapping_add.  (The coordinator holds the registry mutex  *)
(* in every step in which it writes an entry.)                             *)
C8_FrameIdMonotonic == [][lock = "render" => FrameIdsNonDecreasing]_vars

(* C8 amended: the frame_id stored for a channel is non-decreasing over    *)
(* the coordinator runs and publishes up to the run in which the u64       *)
(* counter wraps from 2^64 - 1 to 0.                                       *)
C8_FrameIdMonotonicUntilWrap ==
  [][(lock = "render" /\ ~wrapped') => FrameIdsNonDecreasing]_vars

C8_Witness ==
  /\ ~wrapped
  /\ Len(publish_log["a"]) >= 2
  /\ "a" \in DOMAIN exported_images
  /\ exported_images["a"].frame_id = publish_log["a"][Len(publish_log["a"])]
  /\ u64_less(publish_log["a"][1], exported_images["a"].frame_id)

(* C9: two distinct publishes to the same channel name never carry the     *)
(* same frame_id, so a consumer that compares frame_id with the value it   *)
(* saw last detects every new publish.                                     *)
C9_PublishesCarryDistinctFrameIds ==
  \A n \in Names :
    \A i, j \in 1..Len(publish_log[n]) :
      i # j => publish_log[n][i] # publish_log[n][j]

(* C10: a reader (save_img) always observes a complete, internally         *)
(* consistent snapshot: the pixel bytes it sees are exactly those stored   *)
(* together with the frame_id it sees, never a mix of two publishes.       *)
C10_ReaderSeesConsistentSnapshot ==
  seen # NoView => seen.img_buffer.stamp = seen.frame_id

SameRead == seen'.frame_id = seen.frame_id /\ seen'.img_buffer = seen.img_buffer

C12_MapFailureRecoverable ==
  ~(coord.pc = "panicked" /\ coord.cause = "map_failed")

(* C13: if a channel's source texture is not resolvable in a frame, the    *)
(* channel is skipped for that frame without aborting the frame loop: the  *)
(* capture node records no copy for it and still records one for every     *)
(* other prepared channel, and preparing an export target whose texture    *)
(* does not resolve does not end the frame either.                         *)
C13_UnresolvableSourceSkipped ==
  /\ ~(coord.pc = "panicked" /\ coord.cause = "prepare_asset")
  /\ coord.pc \notin {"idle", "panicked"} =>
       \A i \in 1..Len(export_bundles) :
         export_bundles[i].status = "prepared" =>
           (export_bundles[i].copied <=> export_bundles[i].image)

(* C14: when the registry has no entries, a coordinator run is a no-op on  *)
(* capture state: it returns without a map request and without the         *)
(* blocking poll, and leaves the registry (and the staging buffers)        *)
(* unchanged; the render thread goes on to the next frame.                 *)
C14_EmptyRegistryNoOp ==
  [][(coord.pc = "begin" /\ DOMAIN exported_images = {} /\ coord' # coord) =>
       /\ coord' = CoordIdle
       /\ lock' = "none"
       /\ UNCHANGED <<exported_images, export_bundles, publish_log>>]_vars

C14_Witness ==
  /\ nruns >= 1
  /\ coord = CoordIdle
  /\ DOMAIN exported_images = {}
  /\ frame_id \notin FrameIdStarts

(* C18: padding strip: for a mapped buffer of height rows of               *)
(* padded_bytes_per_row bytes with bytes_per_row <= padded_bytes_per_row,  *)
(* the published bytes are the concatenation, in row order, of the first   *)
(* bytes_per_row bytes of each padded row, so the length is exactly        *)
(* height * bytes_per_row; 600/768/4 turns 3072 bytes into 2400.           *)
C18_PaddingStrip ==
  cgd.pc = "unpad_done" =>
    /\ Len(cgd.unpadded) = cgd.height * cgd.bytes_per_row
    /\ \A r \in 0..(cgd.height - 1), b \in 1..cgd.bytes_per_row :
         cgd.unpadded[r * cgd.bytes_per_row + b]
           = cgd.image_bytes[r * cgd.padded_bytes_per_row + b]
    /\ (cgd.bytes_per_row = 600 /\ cgd.padded_bytes_per_row = 768 /\ cgd.height = 4) =>
         Len(cgd.image_bytes) = 3072 /\ Len(cgd.unpadded) = 2400

C18_Witness ==
  /\ cgd.pc = "unpad_done"
  /\ cgd.bytes_per_row = 600 /\ cgd.padded_bytes_per_row = 768 /\ cgd.height = 4
  /\ Len(cgd.unpadded) = 2400

(* C19: after setup_render_target(name, per_view_size, num_views) the      *)
(* registry contains an entry under name whose pixel buffer has            *)
(* atlas_width * atlas_height * 4 bytes, all zero, with frame_id = 0;      *)
(* exactly one export entity carrying that name is spawned; the returned   *)
(* offset list has num_views elements; entries of other names are          *)
(* unchanged.                                                              *)
C19_SetupEffects ==
  [][Len(export_bundles') = Len(export_bundles) + 1 =>
       LET spawned == export_bundles'[Len(export_bundles')]
           name == spawned.name
       IN /\ DOMAIN exported_images' = DOMAIN exported_images \cup {name}
          /\ exported_images'[name].frame_id = U64Zero
          /\ exported_images'[name].img_buffer.src = 0
          /\ exported_images'[name].img_buffer.len = spawned.size[1] * spawned.size[2] * 4
          /\ SubSeq(export_bundles', 1, Len(export_bundles)) = export_bundles
          /\ Len(spawned.viewports) = spawned.input[3]
          /\ \A n \in DOMAIN exported_images \ {name} :
               exported_images'[n] = exported_images[n]]_vars

C19_Witness ==
  /\ Len(export_bundles) = 2
  /\ export_bundles[2].name = "b" /\ export_bundles[2].status = "spawned"
  /\ DOMAIN exported_images = {"a", "b"}
  /\ exported_images["a"].frame_id # U64Zero
  /\ exported_images["b"] = [frame_id |-> U64Zero,
                            img_buffer |-> [src |-> 0, len |-> 4, stamp |-> U64Zero]]

(* C20: in every reachable state exactly one atlas texture, one staging    *)
(* buffer (export entity) and one registry entry exist per channel name,   *)
(* including after setup_render_target has been called more than once with *)
(* the same name.                                                          *)
C20_OnePerChannel ==
  \A n \in Names :
    IF n \in DOMAIN exported_images
    THEN Cardinality({i \in 1..Len(export_bundles) : export_bundles[i].name = n}) = 1
    ELSE \A i \in 1..Len(export_bundles) : export_bundles[i].name # n

(* C23: in every frame and for every channel the coordinator publishes,    *)
(* the bytes written under that channel's name are the bytes read from     *)
(* that same channel's staging buffer: each map-completion future is       *)
(* consumed together with the export bundle it was requested for, also in  *)
(* frames where another bundle's source was not resolvable and produced no *)
(* future.                                                                 *)
C23_FutureConsumedWithItsBundle ==
  /\ (coord.pc = "zip" /\ coord.k <= Len(coord.futures) /\ coord.k <= Len(RenderBundles)) =>
       coord.futures[coord.k].buffer = RenderBundles[coord.k]
  /\ coord.pc = "copy" => export_bundles[coord.image_bytes.src].name = coord.target

(* C24: every staging buffer for which a map was requested in a           *)
(* coordinator run is read and unmapped before that run ends, so no        *)
(* staging buffer is still mapped when the next frame's copy and map       *)
(* request are issued.                                                     *)
C24_UnmappedBetweenRuns ==
  coord.pc \in {"idle", "begin", "map"} =>
    \A i \in 1..Len(export_bundles) : ~export_bundles[i].mapped

(* C25: the coordinator requests a map for, and publishes, only channels   *)
(* with a completed copy in that frame: if the capture node skipped a      *)
(* channel's texture-to-buffer copy in a frame, that channel's snapshot    *)
(* and frame_id are not updated in that frame.                             *)
C25_OnlyCopiedChannelsPublished ==
  /\ coord.pc \in {"poll", "zip", "copy"} =>
       \A j \in 1..Len(coord.futures) : export_bundles[coord.futures[j].buffer].copied
  /\ coord.pc = "copy" => export_bundles[RenderBundles[coord.k]].copied

(* C26: for every channel created through setup_render_target, at every    *)
(* publish the destination pixel buffer's byte length equals the unpadded  *)
(* source length height * bytes_per_row, so the in-place copy in           *)
(* update_data never hits a length mismatch.                               *)
C26_PublishLengthsMatch ==
  /\ coord.pc = "copy" =>
       /\ coord.image_bytes.len = exported_images[coord.target].img_buffer.len
       /\ coord.image_bytes.len
            = export_bundles[RenderBundles[coord.k]].size[2]
                * bytes_per_row(export_bundles[RenderBundles[coord.k]].size)
  /\ ~(coord.pc = "panicked" /\ coord.cause = "copy_from_slice")

(* The completion signal of bundle b was awaited among the first k signals *)
(* of the run and reported success.                                        *)
OwnSignalSucceeded(b, k) ==
  \E j \in 1..k : /\ j <= Len(coord.futures)
                  /\ coord.futures[j].buffer = b
                  /\ coord.futures[j].ok

(* C27: within one coordinator run all map requests are issued first, then *)
(* comes the single blocking poll, then the completion signals are awaited *)
(* in submission order, and a channel's read, unmap, unpad and registry    *)
(* write happen only after its own completion signal succeeded.            *)
C27_RunStepsOrdered ==
  [][/\ coord.pc = "map" =>
          /\ coord'.pc = "poll"
          /\ Len(coord'.futures) = Len(SelectSeq(RenderBundles, Resolvable))
          /\ UNCHANGED exported_images
     /\ (coord.pc = "poll" /\ coord'.pc # "poll") =>
          /\ coord'.pc = "zip" /\ coord'.k = 1
          /\ coord'.futures = coord.futures
          /\ UNCHANGED <<exported_images, export_bundles>>
     /\ (coord.pc \in {"zip", "copy"} /\ coord'.pc \in {"zip", "copy"}) =>
          /\ coord'.futures = coord.futures
          /\ coord'.k \in {coord.k, coord.k + 1}
          /\ \A j \in 1..(coord'.k - 1) : coord.futures[j].ok
     /\ (coord.pc \in {"zip", "copy"}
           /\ (exported_images' # exported_images \/ export_bundles' # export_bundles)) =>
          /\ coord.futures[coord.k].ok
          /\ \A j \in 1..coord.k :
               OwnSignalSucceeded(coord.futures[j].buffer, coord.k)
          /\ OwnSignalSucceeded(RenderBundles[coord.k], coord.k)
          /\ \A i \in 1..Len(export_bundles) :
               export_bundles'[i] # export_bundles[i] => i = RenderBundles[coord.k]
          /\ \A n \in DOMAIN exported_images :
               exported_images'[n] # exported_images[n]
                 => n = export_bundles[RenderBundles[coord.k]].name
    ]_vars

(* The second signal of a run was awaited, succeeded, and its channel's    *)
(* bytes are about to be written.                                          *)
C27_Witness ==
  /\ coord.pc = "copy" /\ coord.k = 2
  /\ coord.futures[2].ok /\ coord.futures[2].buffer = RenderBundles[2]
  /\ export_bundles[RenderBundles[2]].name = "b"

(* Position of step s in the frame so far, 0 when it has not run. *)
RanAt(s) ==
  IF \E k \in 1..Len(cgd.ran) : cgd.ran[k] = s
  THEN CHOOSE k \in 1..Len(cgd.ran) : cgd.ran[k] = s
  ELSE 0

RanBefore(s, t) == RanAt(t) > 0 => (RanAt(s) > 0 /\ RanAt(s) < RanAt(t))

(* C28: in every frame the texture-to-buffer copy is recorded after the    *)
(* camera pass and before the coordinator requests the map of the staging  *)
(* buffer, and the coordinator runs after the Render set and before        *)
(* Cleanup.                                                                *)
C28_FrameOrder ==
  cgd.pc = "frame" =>
    /\ RanBefore("camera_driver", "image_export_node")
    /\ RanBefore("image_export_node", "save_buffer_as_resource")
    /\ RanBefore("render_set", "save_buffer_as_resource")
    /\ RanBefore("save_buffer_as_resource", "cleanup_set")

(* A whole frame has run. *)
C28_Witness ==
  /\ cgd.pc = "frame"
  /\ RanAt("image_export_node") > 0 /\ RanAt("save_buffer_as_resource") > 0
  /\ RanAt("cleanup_set") > 0

(* The bundles of channel n for which the node recorded a copy this frame *)
CopiesOf(bundles, n) ==
  {i \in 1..Len(bundles) : bundles[i].name = n /\ bundles[i].copied}

(* C29: once per rendered frame the capture node records exactly one      *)
(* texture-to-buffer copy for every registered channel whose texture       *)
(* resolves, with offset 0, bytes_per_row = the channel's                  *)
(* padded_bytes_per_row, rows_per_image = None and the recorded source     *)
(* size, and it changes neither the registry nor other CPU-visible state.  *)
C29_NodeCopiesOncePerChannel ==
  [][(coord.pc = "idle" /\ coord'.pc = "begin") =>
       /\ \A n \in DOMAIN exported_images :
            (\E i \in 1..Len(export_bundles') :
                /\ export_bundles'[i].name = n
                /\ export_bundles'[i].status = "prepared"
                /\ export_bundles'[i].image)
              => Cardinality(CopiesOf(export_bundles', n)) = 1
       /\ \A i \in 1..Len(export_bundles') :
            export_bundles'[i].copied =>
              /\ export_bundles'[i].image
              /\ copy_command(export_bundles'[i]).offset = 0
              /\ copy_command(export_bundles'[i]).bytes_per_row % RowAlignment = 0
              /\ copy_command(export_bundles'[i]).bytes_per_row
                   >= export_bundles'[i].size[1] * BytesPerPixel
              /\ copy_command(export_bundles'[i]).rows_per_image = "None"
              /\ copy_command(export_bundles'[i]).size = export_bundles'[i].size
       /\ UNCHANGED <<exported_images, frame_id, lock, seen>>
    ]_vars

(* C30: for every prepared export target padded_bytes_per_row is           *)
(* bytes_per_row rounded up to the device row alignment (at least          *)
(* bytes_per_row, a multiple of the alignment, equal to bytes_per_row when *)
(* that is aligned), and the staging buffer size is the mathematical       *)
(* product padded_bytes_per_row * texture height, also when the product    *)
(* exceeds the 32-bit range it is computed in.                             *)
C30_StridesAndBufferSize ==
  /\ cgd.pc # "prepare_panic"
  /\ cgd.pc = "prepared" =>
       /\ cgd.padded_bytes_per_row >= cgd.bytes_per_row
       /\ cgd.padded_bytes_per_row - cgd.bytes_per_row < RowAlignment
       /\ cgd.padded_bytes_per_row % RowAlignment = 0
       /\ cgd.bytes_per_row % RowAlignment = 0
            => cgd.padded_bytes_per_row = cgd.bytes_per_row
       /\ cgd.buffer_units
            = cgd.source_size[2] * (cgd.padded_bytes_per_row \div RowAlignment)

(* C31: registry entries are mutated in place after setup: across the      *)
(* publishes of a coordinator run the byte length of a channel's pixel     *)
(* buffer never changes, and no publish replaces or removes an entry.      *)
C31_PublishInPlace ==
  [][coord.pc \in {"map", "poll", "zip", "copy"} =>
       /\ DOMAIN exported_images' = DOMAIN exported_images
       /\ \A n \in DOMAIN exported_images :
            exported_images'[n].img_buffer.len = exported_images[n].img_buffer.len
    ]_vars

(* A readback was published into the 256-byte buffer of a channel. *)
C31_Witness ==
  /\ "a" \in DOMAIN exported_images
  /\ exported_images["a"].img_buffer.src # 0
  /\ exported_images["a"].img_buffer.len = RowAlignment
  /\ coord.pc = "zip"

(* C32: only the coordinator waits for the GPU: while it is in the         *)
(* blocking device poll or awaits a map completion, a consumer's registry  *)
(* read (save_img, get_view) can take the registry lock without waiting.   *)
C32_ReadersNeverWaitForGpu ==
  (coord.pc \in {"poll", "zip"} /\ ReaderChannel \in DOMAIN exported_images)
    => can_lock

(* C33: the map wait has no timeout: the coordinator leaves the wait only *)
(* when every map request of the run has completed, so a request that      *)
(* never completes keeps the run, and with it the render thread, from      *)
(* going on; and when the device completes every request, every            *)
(* coordinator run ends.                                                   *)
C33_NoTimeoutOnMapWait ==
  /\ [][(coord.pc = "poll" /\ coord'.pc # "poll") =>
          coord.completed = Len(coord.futures)]_vars
  /\ [][(coord.pc = "poll" /\ coord.completed < Len(coord.futures)) =>
          UNCHANGED <<exported_images, frame_id, nruns>>]_vars
  /\ (coord.pc \in {"map", "poll", "zip", "copy"}) ~> (coord.pc \in {"idle", "panicked"})

(* A run waits for two map requests, none of them completed yet. *)
C33_Witness ==
  /\ coord.pc = "poll"
  /\ Len(coord.futures) = 2
  /\ coord.completed = 0

(* C35: the export target follows its render target: the size and the     *)
(* strides that a recorded copy and the readback after it use are those of *)
(* the texture as it is in that frame, also after the texture was resized. *)
C35_TargetFollowsTexture ==
  \A i \in 1..Len(export_bundles) :
    (coord.pc # "idle" /\ export_bundles[i].copied) =>
      /\ export_bundles[i].size = export_bundles[i].texture
      /\ copy_command(export_bundles[i]).bytes_per_row
           = padded_bytes_per_row(export_bundles[i].texture)

(* C36: update_data is all-or-nothing: when the copy fails on a length     *)
(* mismatch neither frame_id nor the pixel bytes of the snapshot have      *)
(* changed, so outside of a running update_data every snapshot's frame_id  *)
(* is the one its pixel bytes were stored with.                            *)
C36_UpdateDataAllOrNothing ==
  coord.pc # "copy" =>
    \A n \in DOMAIN exported_images :
      exported_images[n].frame_id = exported_images[n].img_buffer.stamp

(* No publish so far stamped frame id 0, and a snapshot with frame_id 0    *)
(* holds the zeroed pixels of its setup.                                   *)
ZeroMeansNeverPublished ==
  /\ \A n \in Names :
       \A k \in 1..Len(publish_log[n]) : publish_log[n][k] # U64Zero
  /\ \A n \in DOMAIN exported_images :
       exported_images[n].frame_id = U64Zero =>
         /\ exported_images[n].img_buffer.src = 0
         /\ exported_images[n].img_buffer.stamp = U64Zero

(* C38: frame_id 0 is never assigned by a publish: the counter starts at 0 *)
(* and is advanced before use, so a snapshot with frame_id 0 was never     *)
(* published, after any number of coordinator runs.                        *)
C38_ZeroNeverPublished == ZeroMeansNeverPublished

(* C38, amended: ... in every run before the one in which the u64 counter  *)
(* wraps from 2^64 - 1 to 0.                                               *)
C38_ZeroNeverPublishedUntilWrap == ~wrapped => ZeroMeansNeverPublished

(* One channel was published before the wrap while another still has the   *)
(* frame_id 0 of its setup.                                                *)
C38_Witness ==
  /\ ~wrapped
  /\ publish_log["a"] # <<>>
  /\ "b" \in DOMAIN exported_images
  /\ exported_images["b"].frame_id = U64Zero

(* x + n on u64 *)
RECURSIVE wrapping_add(_, _)
wrapping_add(x, n) == IF n = 0 THEN x ELSE wrapping_add(wrapping_add_one(x), n - 1)

(* The runs of save_buffer_as_resource begun so far: one in every frame    *)
(* begun, but for a frame whose coordinator has not started or in which    *)
(* prepare_asset ended the render thread.                                  *)
CoordinatorRuns ==
  IF coord.pc = "begin" \/ (coord.pc = "panicked" /\ coord.cause = "prepare_asset")
  THEN nruns - 1
  ELSE nruns

(* C39: the frame counter advances by exactly one in every run of          *)
(* save_buffer_as_resource, also in a run that returns early on an empty   *)
(* registry or publishes nothing, so the frame_id stamped on a publish is  *)
(* the number of coordinator runs so far (mod 2^64) counted from the       *)
(* counter's start, not the number of publishes of the channel.            *)
C39_CounterCountsRuns ==
  /\ \E start \in FrameIdStarts : frame_id = wrapping_add(start, CoordinatorRuns)
  /\ coord.pc = "copy" =>
       /\ coord.image_bytes.stamp = frame_id
       /\ exported_images[coord.target].frame_id = frame_id
       /\ publish_log[coord.target][Len(publish_log[coord.target])] = frame_id

(* The first publish of a channel, in the second run, is stamped 2: the    *)
(* first run returned early on the empty registry.                         *)
C39_Witness ==
  /\ coord.pc = "copy"
  /\ frame_id = <<0, 0, 0, 2>>
  /\ Len(publish_log[coord.target]) = 1
  /\ exported_images[coord.target].frame_id = <<0, 0, 0, 2>>

----------------------------------------------------------------------------
(* Part 3: properties of the vision sensors *)

(* C15: get_view for a channel that does not (yet) exist in the registry,  *)
(* including when the registry is empty, returns a defined placeholder     *)
(* image (not a crop of any entry) with frame_id = 0 rather than failing.  *)
C15_UnknownChannelGivesPlaceholder ==
  (view.pc # "none" /\ view.call.channel \notin 1..view.entries) =>
    /\ view.pc = "returned"
    /\ view.result.entry = 0

(* pixel (i, j) of a returned image, and pixel (c, r) of a snapshot *)
ViewPixel(result, i, j) == <<result.entry, result.version, result.x + i, result.y + j>>

SnapshotPixel(entry, version, c, r) == <<entry, version, c, r>>

(* C16: get_view(channel, (x, y, width, height)) returns a cropped copy of *)
(* the channel's current snapshot: the result has size width x height and  *)
(* pixel (i, j) of the result equals pixel (x+i, y+j) of that channel's    *)
(* snapshot.                                                               *)
C16_GetViewCropsChannel ==
  (view.pc = "returned" /\ view.call.sensor # 0) =>
    LET params == view.call.params
        channel == view.call.channel
    IN /\ view.result.width = params.width
       /\ view.result.height = params.height
       /\ \A i \in 0..(params.width - 1), j \in 0..(params.height - 1) :
            ViewPixel(view.result, i, j)
              = SnapshotPixel(channel, view.versions[channel], params.x + i, params.y + j)

(* C17: every region a vision sensor passes to get_view lies fully within  *)
(* the bounds of the snapshot it is cropped from, after any sequence of    *)
(* add_vision calls.                                                       *)
C17_RegionsInsideSnapshot ==
  (view.pc # "none" /\ view.call.sensor # 0) =>
    /\ view.entries > 0
    /\ view.call.params.x + view.call.params.width <= view.image_width
    /\ view.call.params.y + view.call.params.height <= view.image_height

----------------------------------------------------------------------------
(* Properties of the consumers *)

(* C21: the file writer reads the named snapshot each tick and writes it   *)
(* to disk only if its frame_id differs from the last one written: no      *)
(* frame_id is written twice and a tick with no new publish writes         *)
(* nothing.                                                                *)
C21_WritesOnlyNewFrames ==
  [][(seen # NoView /\ seen' # seen /\ seen'.wrote) =>
       seen'.frame_id # seen.frame_id]_vars

(* C22: the consumer operations get_view and save_img leave every registry *)
(* entry's pixel bytes and frame_id, and the set of registry keys,         *)
(* unchanged: only the coordinator writes snapshots after setup.           *)
C22_ConsumersReadOnly ==
  [][(seen' # seen \/ view' # view) =>
       UNCHANGED <<exported_images, headless_images>>]_vars

C22_Witness ==
  /\ seen # NoView
  /\ view.pc = "returned"
  /\ DOMAIN exported_images = {"a", "b"}
  /\ Len(headless_images) = 2

(* C34: no call of setup_render_target in the repository reaches           *)
(* calculate_grid_dimensions with num_views = 0: the example passes 1, and *)
(* add_vision returns before the call when no sensor is pending, so every  *)
(* atlas it registers serves at least one sensor.                          *)
C34_NumViewsNeverZero ==
  /\ ~(view.pc = "panicked" /\ view.cause = "num_views_zero")
  /\ \A i \in 1..Len(export_bundles) : export_bundles[i].input[3] > 0
  /\ \A a \in 1..Len(headless_images) :
       \E v \in 1..Len(visions) : visions[v].sensing /\ visions[v].atlas = a

(* Both callers have set up a render target, add_vision for two sensors. *)
C34_Witness ==
  /\ Len(export_bundles) > 0
  /\ Len(headless_images) > 0
  /\ \E v, w \in 1..Len(visions) :
       /\ v # w /\ visions[v].sensing /\ visions[w].sensing
       /\ visions[v].atlas = visions[w].atlas

(* C37: every component takes the registry mutex before a lock of an entry *)
(* and never takes the registry mutex while it holds an entry's lock, and  *)
(* no interleaving of the render thread and the main thread reaches a      *)
(* state in which each waits for a lock the other holds.                   *)
C37_LockOrderNoDeadlock ==
  cgd.pc = "locks" =>
    /\ \A t \in Threads : cgd.entry[t] # "none" => cgd.registry = t
    /\ \A t \in Threads :
         NextLockOp(t) = "lock_registry" => cgd.entry[t] = "none"
    /\ \E t \in Threads : lock_is_free(t, NextLockOp(t))

(* save_img reads an entry under the registry mutex while the coordinator  *)
(* waits for the mutex.                                                    *)
C37_Witness ==
  /\ cgd.pc = "locks"
  /\ cgd.runs["main"] = "save_img"
  /\ cgd.registry = "main" /\ cgd.entry["main"] = "read"
  /\ cgd.at["render"] = 0

=============================================================================
